---- MODULE Spec2Model ----
(***************************************************************************)
(* Model of the instrumented execution pipeline of coalib/bears/Bear.py    *)
(* (Bear.execute, run_bear_from_section, setup_profiler, pstats_config,    *)
(* parenthesis_split) and of coalib/bearlib/aspects/decorators.py          *)
(* (map_setting_to_aspect, profile_bears_decorator).                       *)
(*                                                                         *)
(* Strings are modelled as sequences of symbols.  A symbol is either one   *)
(* of the characters the code inspects (",", "(", ")", " ") or a word that *)
(* the code only ever compares as a whole ("True", "dump", "strip_dirs").  *)
(***************************************************************************)
EXTENDS Integers, Sequences, FiniteSets, TLC

VARIABLES
    sentence,     \* parenthesis_split: the argument `sentence`
    splitRet,     \* parenthesis_split: what the call returned and reported
    profile_bears,\* pstats_config: the argument `profile_bears` (token list)
    pstatsRet,    \* pstats_config: the Stats returned and the messages
    inp,          \* execute: the bear, its section and the call's arguments
    pc,           \* execute: the statement control is at
    kwargs,       \* execute: the kwargs dictionary as it is handed on
    tokens,       \* setup_profiler: the local profile_bears (token list)
    retval,       \* setup_profiler: retval / profile_bears_results
    profEnabled,  \* setup_profiler: whether prof is collecting
    profEnables,  \* number of prof.enable() calls so far
    calls,        \* the entries of the routine's body, oldest first
    produced,     \* the items the routine's generators produced, in order
    log,          \* the messages given to debug / warn / err, in order
    report,       \* the profile reports and dumps written, in order
    raisedExc,    \* the exception that reached execute's handler, or "none"
    result,       \* what execute gave its caller
    dbgIn,        \* debug_run: the routine and the commands on stdin
    dbgPc,        \* debug_run: the statement control is at
    dbgResults,   \* debug_run: the list `results`
    transcript,   \* debug_run: what the debugger wrote on stdout
    tblIn,        \* report: the directive, the profile collected, the bear
    tblPc,        \* report: the statement control is at
    tmpFile,      \* setup_profiler_table: whether the file at `path` exists
    tblOut        \* report: the table rendered, the file written, the raise

splitVars == <<sentence, splitRet>>
pstatsVars == <<profile_bears, pstatsRet>>
pipeVars == <<inp, pc, kwargs, tokens, retval, profEnabled, profEnables,
              calls, produced, log, report, raisedExc, result>>
dbgVars == <<dbgIn, dbgPc, dbgResults, transcript>>
tblVars == <<tblIn, tblPc, tmpFile, tblOut>>
vars == <<splitVars, pstatsVars, pipeVars, dbgVars, tblVars>>

----------------------------------------------------------------------------
(* Bounds *)

MaxLen == 4          \* longest sentence handed to parenthesis_split
MaxCmds == 3         \* most post-processing commands after the first token
MaxItems == 2        \* most items a routine produces
MaxFuncs == 16       \* most functions in the profile a report is made of

----------------------------------------------------------------------------
(* Generic sequence helpers (Python built-ins used by the code) *)

\* s[1..n] reversed
RECURSIVE Reverse(_)
Reverse(s) == IF s = <<>> THEN <<>> ELSE Append(Reverse(Tail(s)), Head(s))

\* str.lstrip(chars): drop leading symbols that are in chars
RECURSIVE LStrip(_, _)
LStrip(s, chars) ==
    IF s # <<>> /\ Head(s) \in chars THEN LStrip(Tail(s), chars) ELSE s

\* str.strip(chars)
Strip(s, chars) == Reverse(LStrip(Reverse(LStrip(s, chars)), chars))

\* Python slice s[i:j] with 0-based i and exclusive j
Slice(s, i, j) == SubSeq(s, i + 1, j)

\* All sequences over S of length at most n
SeqUpTo(S, n) == UNION {[1..k -> S] : k \in 0..n}

----------------------------------------------------------------------------
(* Bear.parenthesis_split, Bear.py 283-305 *)

InvalidArgsMsg == "Invalid arguments to --profile-bears"

\* The for loop of lines 289-297 from 0-based position i on.  st.nb is
\* nb_brackets, st.final the list `final`, st.raised whether the ValueError
\* of line 297 was raised (the loop stops there).
RECURSIVE SplitScan(_, _, _, _)
SplitScan(s, i, st, p) ==
    IF i >= Len(s) \/ st.raised THEN st
    ELSE LET c  == s[i + 1]
             nb == IF c = p.lparen THEN st.nb + 1
                   ELSE IF c = p.rparen THEN st.nb - 1
                   ELSE st.nb
             fin == IF c # p.lparen /\ c # p.rparen
                       /\ c = p.separator /\ st.nb = 0
                    THEN Append(st.final, i) ELSE st.final
         IN  SplitScan(s, i + 1,
                 [nb |-> nb, final |-> fin, raised |-> nb < 0], p)

\* The mutant: the check of line 299-300 (an opening parenthesis never
\* closed) is left out.
parenthesis_split_noopen(sentence0, separator, lparen, rparen) ==
    LET s  == Strip(sentence0, {separator})
        p  == [separator |-> separator, lparen |-> lparen, rparen |-> rparen]
        st == SplitScan(s, 0, [nb |-> 0, final |-> <<0>>, raised |-> FALSE], p)
        final == Append(st.final, Len(s))
    IN  IF st.raised
        THEN [called |-> TRUE, isNone |-> TRUE, tokens |-> <<>>,
              errs |-> <<InvalidArgsMsg>>]
        ELSE [called |-> TRUE, isNone |-> FALSE,
              tokens |-> [k \in 1..(Len(final) - 1) |->
                             Strip(Slice(s, final[k], final[k + 1]),
                                   {separator})],
              errs |-> <<>>]

\* parenthesis_split(sentence, separator, lparen, rparen): the value returned
\* (isNone: the bare `return` of line 303) and the messages given to self.err.
parenthesis_split(sentence0, separator, lparen, rparen) ==
    LET s  == Strip(sentence0, {separator})
        p  == [separator |-> separator, lparen |-> lparen, rparen |-> rparen]
        st == SplitScan(s, 0, [nb |-> 0, final |-> <<0>>, raised |-> FALSE], p)
        final == Append(st.final, Len(s))
    IN  IF st.raised \/ st.nb > 0
        THEN [called |-> TRUE, isNone |-> TRUE, tokens |-> <<>>,
              errs |-> <<InvalidArgsMsg>>]
        ELSE [called |-> TRUE, isNone |-> FALSE,
              tokens |-> [k \in 1..(Len(final) - 1) |->
                             Strip(Slice(s, final[k], final[k + 1]),
                                   {separator})],
              errs |-> <<>>]

NotCalled == [called |-> FALSE, isNone |-> FALSE, tokens |-> <<>>,
              errs |-> <<>>]

SplitIdle ==
    /\ sentence = <<>>
    /\ splitRet = NotCalled

----------------------------------------------------------------------------
(* pstats.Stats as Bear.pstats_config uses it.  A Stats object is modelled *)
(* by what its methods change: stripped (strip_dirs rewrote the file       *)
(* names), sorted (the keys fcn_list is ordered by, <<>> while fcn_list is *)
(* None), reversed (fcn_list was reversed), files (profiles merged in by   *)
(* add), stream (what was printed on the stream, in order) and dumped      *)
(* (files written by dump_stats).                                          *)

\* pstats.Stats(prof, stream=stream), line 309
PsNew == [stripped |-> FALSE, sorted |-> <<>>, reversed |-> FALSE,
          files |-> <<>>, stream |-> <<>>, dumped |-> <<>>]

\* The keys sort_stats accepts (pstats.Stats.sort_arg_dict_default)
ValidSortKeys == {<<"time">>, <<"cumtime">>, <<"calls">>}

\* ps.reverse_order(), line 335: reverses fcn_list when there is one
PsReverseOrder(ps) ==
    IF ps.sorted # <<>> THEN [ps EXCEPT !.reversed = ~ps.reversed] ELSE ps

\* ps.strip_dirs(), lines 337 and 377: rewrites names, forgets fcn_list
PsStripDirs(ps) ==
    [ps EXCEPT !.stripped = TRUE, !.sorted = <<>>, !.reversed = FALSE]

\* ps.add(*args), line 339: merges the named profiles, forgets fcn_list
PsAdd(ps, args) ==
    [ps EXCEPT !.files = ps.files \o Reverse(args), !.sorted = <<>>,
               !.reversed = FALSE]

\* ps.dump_stats(*args), line 341
PsDumpStats(ps, args) == [ps EXCEPT !.dumped = ps.dumped \o args]

\* ps.sort_stats(*args), lines 343 and 377: a fresh fcn_list in that order
PsSortStats(ps, args) == [ps EXCEPT !.sorted = args, !.reversed = FALSE]

\* ps.print_stats / print_callers / print_callees, lines 346-350: one block
\* of text on the stream, in the listing order of the moment
PsPrint(ps, what, args) ==
    [ps EXCEPT !.stream = Append(ps.stream,
        [what |-> what, args |-> args, stripped |-> ps.stripped,
         sorted |-> ps.sorted, reversed |-> ps.reversed, files |-> ps.files])]

----------------------------------------------------------------------------
(* Bear.pstats_config, Bear.py 307-377 *)

\* str.lower() of one symbol
Lower(sym) ==
    CASE sym = "True" -> "true"
      [] sym = "False" -> "false"
      [] OTHER -> sym

LowerSeq(s) == [k \in DOMAIN s |-> Lower(s[k])]

\* The 1-based position of the first c in s, 0 when there is none
FirstIndex(s, c) ==
    IF \E k \in DOMAIN s : s[k] = c
    THEN CHOOSE k \in DOMAIN s : s[k] = c /\ \A j \in 1..(k - 1) : s[j] # c
    ELSE 0

\* s.split(c, 1)[0] and s.split(c, 1)[1]
BeforeFirst(s, c) ==
    IF FirstIndex(s, c) = 0 THEN s ELSE SubSeq(s, 1, FirstIndex(s, c) - 1)
AfterFirst(s, c) == SubSeq(s, FirstIndex(s, c) + 1, Len(s))

\* s.replace(c, '')
RECURSIVE Remove(_, _)
Remove(s, c) ==
    IF s = <<>> THEN <<>>
    ELSE IF Head(s) = c THEN Remove(Tail(s), c)
    ELSE <<Head(s)>> \o Remove(Tail(s), c)

\* s.split(c): always at least one piece, [''] for the empty string
RECURSIVE SplitOn(_, _)
SplitOn(s, c) ==
    IF FirstIndex(s, c) = 0 THEN <<s>>
    ELSE <<BeforeFirst(s, c)>> \o SplitOn(AfterFirst(s, c), c)

\* Lines 314-316: the argument list written after the first "("
ParseArgs(setting) ==
    SplitOn(Remove(Strip(AfterFirst(setting, "("), {" ", ")"}), " "), ",")

\* Line 312 and line 319: the method name of a setting
StrSetting(setting) == Strip(LowerSeq(setting), {" "})
MethodName(setting) == BeforeFirst(StrSetting(setting), "(")

NoArgMethods == {<<"reverse_order">>, <<"strip_dirs">>}
KnownMethods ==
    {<<"reverse_order">>, <<"strip_dirs">>, <<"add">>, <<"dump_stats">>,
     <<"sort_stats">>, <<"print_stats">>, <<"print_callers">>,
     <<"print_callees">>, <<"no_trim">>}

\* The local variable `args`: unbound until a setting with "(" was seen, and
\* kept from one iteration of the loop to the next.
ArgsUnbound == [bound |-> FALSE, val |-> <<>>]

\* Lines 313-316 for one setting
ArgsAfter(args, setting) ==
    IF FirstIndex(setting, "(") # 0
    THEN [bound |-> TRUE, val |-> ParseArgs(setting)]
    ELSE args

\* Lines 317-376 for one setting, given the loop state st = [flag, ps, args,
\* errs, brk].  The messages are records naming the setting they are about.
PstatsStep(st, setting) ==
    LET args == ArgsAfter(st.args, setting)
        name == MethodName(setting)
        fail(msg) == [st EXCEPT !.flag = 0, !.args = args, !.brk = TRUE,
                                !.errs = Append(st.errs, msg)]
        ok(ps) == [st EXCEPT !.flag = 1, !.args = args, !.ps = ps]
    IN  IF StrSetting(setting) = <<>> THEN [st EXCEPT !.args = args]
        ELSE IF args.bound /\ args.val # << <<>> >> /\ name \in NoArgMethods
        THEN fail([kind |-> "accepts_no_arguments", name |-> name])
        ELSE IF args.bound /\ args.val = << <<>> >> /\ name \notin NoArgMethods
        THEN fail([kind |-> "requires_an_argument", name |-> name])
        ELSE IF name = <<"reverse_order">> THEN ok(PsReverseOrder(st.ps))
        ELSE IF name = <<"strip_dirs">> THEN ok(PsStripDirs(st.ps))
        ELSE IF name \in {<<"add">>, <<"dump_stats">>, <<"sort_stats">>,
                          <<"print_stats">>, <<"print_callers">>,
                          <<"print_callees">>} /\ ~args.bound
        THEN fail([kind |-> "unbound_argument", name |-> <<>>])
        ELSE IF name = <<"add">> THEN ok(PsAdd(st.ps, args.val))
        ELSE IF name = <<"dump_stats">> THEN ok(PsDumpStats(st.ps, args.val))
        ELSE IF name = <<"sort_stats">>
        THEN IF \A k \in DOMAIN args.val : args.val[k] \in ValidSortKeys
             THEN ok(PsSortStats(st.ps, args.val))
             ELSE fail([kind |-> "invalid_arguments", name |-> <<>>])
        ELSE IF name = <<"print_stats">>
        THEN ok(PsPrint(st.ps, "stats", args.val))
        ELSE IF name = <<"print_callers">>
        THEN ok(PsPrint(st.ps, "callers", args.val))
        ELSE IF name = <<"print_callees">>
        THEN ok(PsPrint(st.ps, "callees", args.val))
        ELSE IF name = <<"no_trim">> THEN ok(st.ps)
        ELSE fail([kind |-> "unrecognized", name |-> setting])

\* The for loop of line 311 over profile_bears[1:], from 1-based position k
RECURSIVE PstatsLoop(_, _, _)
PstatsLoop(settings, k, st) ==
    IF k > Len(settings) \/ st.brk THEN st
    ELSE PstatsLoop(settings, k + 1, PstatsStep(st, settings[k]))

\* pstats_config(prof, stream, profile_bears): the Stats object returned and
\* the messages given to self.err.
pstats_config(pb) ==
    LET st == PstatsLoop(pb, 2, [flag |-> 0, ps |-> PsNew, args |-> ArgsUnbound,
                                 errs |-> <<>>, brk |-> FALSE])
    IN  [called |-> TRUE,
         ps |-> IF st.flag = 0
                THEN PsSortStats(PsStripDirs(st.ps), <<<<"cumtime">>>>)
                ELSE st.ps,
         errs |-> st.errs]

\* The settings the command lists are drawn from
CommandPool ==
    { <<"strip_dirs">>, <<"reverse_order">>, <<"no_trim">>,
      <<"sort_stats", "(", "time", ")">>,
      <<"sort_stats", "(", "bad", ")">>,
      <<"sort_stats">>,
      <<"print_stats", "(", "5", ")">>,
      <<"add", "(", "other.prof", ")">>,
      <<"strip_dirs", "(", "x", ")">>,
      <<"strip_dirs", "(", ")">>,
      <<"print_callers", "(", ")">>,
      <<"bogus_command">>,
      <<" ", "dump">>,
      <<>> }

----------------------------------------------------------------------------
(* Bear.setup_profiler_table, Bear.py 379-445, and the report branch of    *)
(* setup_profiler, lines 482-498.  The profile is the list of the          *)
(* functions the profiler saw in the listing order of pstats; a function   *)
(* is modelled by how its name prints.  The directives considered leave    *)
(* the printing to the report branch (no print_stats command of their      *)
(* own).                                                                   *)

\* final_table_data[:15], line 434, and ps.print_stats(15), line 492
TrimRows == 15

\* Line 422
colors == <<"red", "white", "blue", "yellow", "magenta", "green">>

\* How the name of a profiled function prints: a file and a function
\* ("plain"), a built-in in braces ("builtin"), a file in a directory whose
\* name holds a blank ("spaced_dir"), a file whose own name holds a blank
\* ("spaced_file"), a function of the bear itself ("own")
FuncKinds == {"plain", "builtin", "spaced_dir", "spaced_file", "own"}

\* The blank-separated pieces of the name column of print_stats; strip_dirs
\* leaves the file name only
NameWords(kind, stripped) ==
    CASE kind = "plain" -> <<"mod.py:1(f)">>
      [] kind = "builtin" -> <<"{built-in", "method", "print}">>
      [] kind = "spaced_dir" ->
             IF stripped THEN <<"mod.py:2(g)">>
             ELSE <<"/my", "dir/mod.py:2(g)">>
      [] kind = "spaced_file" -> <<"my", "mod.py:3(h)">>
      [] OTHER -> <<"TBear.py:4(run)">>

\* y.startswith('{'), line 411
BraceWords == {"{built-in"}

\* `'Linter' in i[5] or self.__class__.__name__ in i[5]`, line 427
MentionsBear(cell) == \E k \in DOMAIN cell : cell[k] = "TBear.py:4(run)"

\* ps.add(name) of a file that does not exist raises FileNotFoundError,
\* which pstats_config does not catch (line 339)
AddRaises(ps) == \E k \in DOMAIN ps.files : ps.files[k] = <<"missing.prof">>

BlankLine == [kind |-> "blank", words |-> <<>>]

\* A line holding 'function calls', 'Ordered by' or 'listing order was used'
Banner(text) == [kind |-> "banner", words |-> <<text>>]

TitleLine ==
    [kind |-> "text",
     words |-> <<"", "ncalls", "tottime", "percall", "cumtime", "percall",
                 "filename:lineno(function)">>]

FuncLine(kind, stripped) ==
    [kind |-> "text",
     words |-> <<"", "", "1", "0.000", "0.000", "0.000", "0.000">>
               \o NameWords(kind, stripped)]

Min(a, b) == IF a < b THEN a ELSE b

\* ps.print_stats() (restricted FALSE, lines 385 and 490) and
\* ps.print_stats(15) (restricted TRUE, line 492): the lines written
PrintStatsLines(ps, profile, restricted) ==
    LET listing == IF ps.reversed THEN Reverse(profile) ELSE profile
        shown == IF restricted
                 THEN SubSeq(listing, 1, Min(TrimRows, Len(listing)))
                 ELSE listing
    IN  <<Banner("function calls"), BlankLine,
          Banner(IF ps.sorted = <<>> THEN "listing order was used"
                 ELSE "Ordered by")>>
        \o (IF Len(shown) < Len(listing)
            THEN <<[kind |-> "text", words |-> <<"", "List", "reduced">>]>>
            ELSE <<>>)
        \o <<BlankLine, TitleLine>>
        \o [k \in DOMAIN shown |-> FuncLine(shown[k], ps.stripped)]
        \o <<BlankLine, BlankLine>>

\* Lines 407-420: the row of one line's pieces; from the first piece that
\* starts with a brace on, the pieces are one cell
RowOf(x) ==
    LET b == IF \E k \in DOMAIN x : x[k] \in BraceWords
             THEN CHOOSE k \in DOMAIN x :
                      /\ x[k] \in BraceWords
                      /\ \A j \in 1..(k - 1) : x[j] \notin BraceWords
             ELSE 0
    IN  IF b = 0 THEN [k \in DOMAIN x |-> <<x[k]>>]
        ELSE [k \in 1..(b - 1) |-> <<x[k]>>] \o <<SubSeq(x, b, Len(x))>>

\* Lines 385-420: final_table_data, the rows parsed back from the stream
FinalTableData(ps, profile) ==
    LET lines == PrintStatsLines(ps, profile, FALSE)
        req_lines == SelectSeq(lines, LAMBDA l : l.kind = "text")
        table_data == [k \in DOMAIN req_lines |->
                          SelectSeq(req_lines[k].words, LAMBDA a : a # "")]
    IN  [k \in DOMAIN table_data |-> RowOf(table_data[k])]

\* Lines 423-434: the rows kept
KeptRows(final_table_data, linter, check_trim) ==
    LET linter_table ==
            <<final_table_data[1]>>
            \o SelectSeq(final_table_data, LAMBDA i : MentionsBear(i[6]))
    IN  IF linter THEN linter_table
        ELSE IF check_trim THEN final_table_data
        ELSE SubSeq(final_table_data, 1,
                    Min(TrimRows, Len(final_table_data)))

\* Lines 435-439 for one row: colored(y, colors[index])
ColoredRow(x) == [k \in DOMAIN x |-> [text |-> x[k], color |-> colors[k]]]

NoTable == [dest |-> "none", raised |-> "none", table |-> <<>>,
            lines |-> <<>>, errs |-> <<>>]

\* The body of the try statement of setup_profiler_table, lines 383-443:
\* the table handed to AsciiTable, or the exception that leaves the body
\* (colors[index] raises IndexError past the last colour)
setup_profiler_table(pb, profile, linter, check_trim) ==
    LET r == pstats_config(pb)
        rows == KeptRows(FinalTableData(r.ps, profile), linter, check_trim)
    IN  IF AddRaises(r.ps)
        THEN [NoTable EXCEPT !.dest = "console",
                             !.raised = "FileNotFoundError"]
        ELSE IF \E k \in DOMAIN rows : Len(rows[k]) > Len(colors)
        THEN [NoTable EXCEPT !.dest = "console", !.raised = "IndexError",
                             !.errs = r.errs]
        ELSE [NoTable EXCEPT !.dest = "console", !.errs = r.errs,
                             !.table = [k \in DOMAIN rows |->
                                           ColoredRow(rows[k])]]

\* Lines 486-493: the report appended to the file named by the first token
ReportToFile(pb, profile, check_trim) ==
    LET r == pstats_config(pb)
    IN  IF AddRaises(r.ps)
        THEN [NoTable EXCEPT !.dest = "file", !.raised = "FileNotFoundError"]
        ELSE [NoTable EXCEPT !.dest = "file", !.errs = r.errs,
                  !.lines = PrintStatsLines(r.ps, profile, ~check_trim)]

----------------------------------------------------------------------------
(* The routine (Bear.run) and its declaration *)

\* The parameters run declares: x has no default, f and t have one
Params == {"x", "f", "t"}
NonOptionalParams == {"x"}

\* The argument of @map_setting_to_aspect(...): x and t are mapped to tastes
\* of aspect A1, f to the aspect class A2.  decorators.py 19, 40
aspectable_setting ==
    [x |-> [tag |-> "Taste", aspect |-> "A1", name |-> "tx"],
     f |-> [tag |-> "Flag", aspect |-> "A2", name |-> ""],
     t |-> [tag |-> "Taste", aspect |-> "A1", name |-> "tt"]]

\* dict.items() order of aspectable_setting
AspectableOrder == <<"x", "f", "t">>

AspectNames == {"A1", "A2"}

\* kwargs[k] = v
Put(kw, k, v) == [j \in (DOMAIN kw) \cup {k} |-> IF j = k THEN v ELSE kw[j]]

\* kwargs.pop(k)
Pop(kw, k) == [j \in (DOMAIN kw) \ {k} |-> kw[j]]

\* kwargs.update(other)
Update(kw, other) ==
    [j \in (DOMAIN kw) \cup (DOMAIN other) |->
        IF j \in DOMAIN other THEN other[j] ELSE kw[j]]

\* FunctionMetadata.create_params_from_section(section): the values of the
\* parameters the section sets; a ValueError when a parameter without
\* default is not set.
CreateParamsRaises(section) == \E q \in NonOptionalParams : q \notin section
create_params_from_section(section) ==
    [q \in section \cap Params |-> "explicit"]

----------------------------------------------------------------------------
(* map_setting_to_aspect._new_func and profile_bears_decorator,            *)
(* decorators.py 9-16 and 37-59                                            *)

\* The mutant: the test of line 42 never skips.
SkipsExplicitNever(arg, section) == FALSE

\* Line 42-43: `if arg in self.section: continue`
SkipsExplicit(arg, section) == arg \in section

\* The mutant: a capability flag is passed as true whenever the resolver
\* runs, whether or not the capability is active.
ResolveArgFlagAlways(kw, arg, section, aspects) ==
    LET av == aspectable_setting[arg]
    IN  IF SkipsExplicit(arg, section) THEN kw
        ELSE IF av.tag = "Flag" THEN Put(kw, arg, "True")
        ELSE IF av.aspect \in aspects THEN Put(kw, arg, "taste")
        ELSE kw

\* Lines 42-51 for one item of aspectable_setting
ResolveArg(kw, arg, section, aspects) ==
    LET av == aspectable_setting[arg]
    IN  IF SkipsExplicit(arg, section) THEN kw
        ELSE IF av.tag = "Flag"
        THEN Put(kw, arg, IF av.aspect \in aspects THEN "True" ELSE "False")
        ELSE IF av.aspect \in aspects THEN Put(kw, arg, "taste")
        ELSE kw

\* The for loop of line 40 from 1-based position k of the items on
RECURSIVE ResolveFrom(_, _, _, _)
ResolveFrom(kw, k, section, aspects) ==
    IF k > Len(AspectableOrder) THEN kw
    ELSE ResolveFrom(ResolveArg(kw, AspectableOrder[k], section, aspects),
                     k + 1, section, aspects)

\* Lines 38-51: the kwargs after the aspect overrides
AspectKwargs(kw, section, aspects) ==
    IF aspects # {} THEN ResolveFrom(kw, 1, section, aspects) ELSE kw

\* Lines 54-59 and 10-15: whether the call goes through
\* profile_bears_decorator, and then whether prof.enable() is called
NewFuncProfiles(kw) ==
    /\ "profile_bears" \in DOMAIN kw
    /\ Strip(LowerSeq(kw["profile_bears"]), {" "}) # <<"false">>

\* self.run(*args, **kw) up to the entry of the routine's body: the kwargs
\* the body receives and whether the profiler was enabled on the way.
InvokeRun(kw, decorated, section, aspects) ==
    IF decorated
    THEN LET kw1 == AspectKwargs(kw, section, aspects)
         IN  IF NewFuncProfiles(kw1)
             THEN [kwargs |-> Pop(Pop(kw1, "profile_bears"), "profiler"),
                   enables |-> "profiler" \in DOMAIN kw1]
             ELSE [kwargs |-> kw1, enables |-> FALSE]
    ELSE [kwargs |-> kw, enables |-> FALSE]


----------------------------------------------------------------------------
(* Bear.execute, run_bear_from_section and setup_profiler: the inputs *)

\* The values of the profile_bears argument that are tried
D_False      == <<"False">>
D_True       == <<"True">>
D_Dump       == <<"True", ",", "dump">>
D_NoTrim     == <<"True", ",", "no_trim", ",", "reverse_order">>
D_File       == <<"out.txt">>
D_BadFile    == <<"nodir/out.txt">>
D_Unbalanced == <<"True", ",", "(">>
D_ReadOnly   == <<"/sys/kernel/notes">>
Directives ==
    {D_False, D_True, D_Dump, D_NoTrim, D_File, D_BadFile, D_Unbalanced,
     D_ReadOnly}

\* open(path, 'a') of line 487 fails for a path in a missing directory and
\* for a file that may not be written
FileOpens(path) == path \notin {<<"nodir/out.txt">>, <<"/sys/kernel/notes">>}

\* The exception open(path, 'a') raises when it fails
OpenError(path) ==
    IF path = <<"nodir/out.txt">> THEN "FileNotFoundError"
    ELSE "PermissionError"

\* The profiles a run collects: of functions in plainly named files, or of a
\* function in a file whose name holds a blank
RunProfiles == {<<"plain">>, <<"spaced_file">>}

\* A routine: it returns a list or a generator (ret) of items 1..n; with
\* raises, a list routine raises when entered and a generator raises after
\* its items, in place of stopping.
Routines ==
    {[ret |-> r, items |-> [k \in 1..n |-> k], raises |-> x] :
        r \in {"list", "gen"}, n \in 0..MaxItems, x \in BOOLEAN}
    \ {[ret |-> "list", items |-> [k \in 1..n |-> k], raises |-> TRUE] :
        n \in 1..MaxItems}

ExcKinds == {"Exception", "ZeroOffsetError", "SystemExit"}

Inputs ==
    {i \in [debug : BOOLEAN, kind : {"LOCAL", "GLOBAL"},
            directive : Directives, decorated : BOOLEAN, routine : Routines,
            exc : ExcKinds, section : SUBSET Params,
            aspects : SUBSET AspectNames, profile : RunProfiles] :
        i.routine.raises \/ i.exc = "Exception"}

\* The kwargs execute is called with
CallerKwargs(directive) ==
    [section_name |-> <<"sec">>, bear_name |-> <<"bear">>,
     profile_bears |-> directive]

NoInput ==
    [debug |-> FALSE, kind |-> "GLOBAL", directive |-> D_False,
     decorated |-> FALSE,
     routine |-> [ret |-> "list", items |-> <<>>, raises |-> FALSE],
     exc |-> "Exception", section |-> {}, aspects |-> {},
     profile |-> <<"plain">>]

NoRetval == [kind |-> "unset", items |-> <<>>]
NoResult == [state |-> "running", value |-> "None", items |-> <<>>,
             exc |-> "none"]

PipeStart(i, at) ==
    /\ inp = i
    /\ pc = at
    /\ kwargs = CallerKwargs(i.directive)
    /\ tokens = <<>>
    /\ retval = NoRetval
    /\ profEnabled = FALSE
    /\ profEnables = 0
    /\ calls = <<>>
    /\ produced = <<>>
    /\ log = <<>>
    /\ report = <<>>
    /\ raisedExc = "none"
    /\ result = NoResult

PipeIdle == PipeStart(NoInput, "idle")

----------------------------------------------------------------------------
(* Bear.execute, Bear.py 523-562 *)

Msg(level, msg, bear, file) ==
    [level |-> level, msg |-> msg, bear |-> bear, file |-> file]

\* The mutant: debug mode re-raises every exception.
ExceptReraisesAll(debug, exc) == debug

\* The mutant: the debug flag is not looked at.
ExceptReraisesIgnoringDebug(debug, exc) == exc # "SystemExit"

\* Line 541: `if debug and not isinstance(exc, SystemExit): raise`
ExceptReraises(debug, exc) == debug /\ exc # "SystemExit"

\* Lines 544-562: the messages of the handler
ExceptLog(exc, kind) ==
    (IF exc = "ZeroOffsetError"
     THEN <<Msg("ERROR", "violated one-based offset convention", TRUE, FALSE)>>
     ELSE <<>>)
    \o <<IF kind = "LOCAL"
         THEN Msg("ERROR", "failed to run on file", TRUE, TRUE)
         ELSE Msg("ERROR", "failed to run", TRUE, FALSE)>>
    \o <<Msg("DEBUG", "raised an exception", TRUE, FALSE)>>

\* Lines 540-562: exception exc has reached the except clause of execute,
\* with lg the messages logged before it.
Except(exc, lg) ==
    /\ raisedExc' = exc
    /\ pc' = "done"
    /\ IF ExceptReraises(inp.debug, exc)
       THEN /\ result' = [state |-> "raised", value |-> "None",
                          items |-> <<>>, exc |-> exc]
            /\ log' = lg
       ELSE /\ result' = [state |-> "returned", value |-> "None",
                          items |-> <<>>, exc |-> "none"]
            /\ log' = lg \o ExceptLog(exc, inp.kind)

\* Line 539: `return [] if result is None else list(result)` for a value
\* that needs no further production
Return(items) ==
    /\ result' = [state |-> "returned", value |-> "list", items |-> items,
                  exc |-> "none"]
    /\ pc' = "done"

\* Lines 524-526
ExecuteEnter ==
    /\ pc = "execute"
    /\ pc' = "run_bear_from_section"
    /\ log' = Append(log, Msg("DEBUG", "Running bear", TRUE, FALSE))
    /\ UNCHANGED <<inp, kwargs, tokens, retval, profEnabled, profEnables,
                   calls, produced, report, raisedExc, result>>
    /\ UNCHANGED <<splitVars, pstatsVars, dbgVars, tblVars>>

\* The mutant: the ValueError of create_params_from_section is not caught
\* as a configuration failure and the bear is run without the parameters.
RunBearFromSectionIgnoresError ==
    /\ pc = "run_bear_from_section"
    /\ kwargs' = Update(kwargs, create_params_from_section(inp.section))
    /\ pc' = "setup_profiler"
    /\ UNCHANGED <<inp, tokens, retval, profEnabled, profEnables, calls,
                   produced, report, raisedExc, result, log>>
    /\ UNCHANGED <<splitVars, pstatsVars, dbgVars, tblVars>>

\* run_bear_from_section, lines 505-516 (the `language` setting of lines
\* 507-510 is not set in the sections considered)
RunBearFromSection ==
    /\ pc = "run_bear_from_section"
    /\ IF CreateParamsRaises(inp.section)
       THEN /\ log' = Append(log, Msg("WARNING", "cannot be executed",
                                      TRUE, FALSE))
            /\ Return(<<>>)
            /\ UNCHANGED kwargs
       ELSE /\ kwargs' = Update(kwargs,
                                create_params_from_section(inp.section))
            /\ pc' = "setup_profiler"
            /\ UNCHANGED <<log, result>>
    /\ UNCHANGED <<inp, tokens, retval, profEnabled, profEnables, calls,
                   produced, report, raisedExc>>
    /\ UNCHANGED <<splitVars, pstatsVars, dbgVars, tblVars>>

\* bool(retval) of line 520
Truthy(rv) ==
    CASE rv.kind = "False" -> FALSE
      [] rv.kind = "list" -> rv.items # <<>>
      [] OTHER -> TRUE

\* The mutant: the value of setup_profiler is handed back as it is, without
\* list(result).
AfterSetupUnnormalized(rv) == IF Truthy(rv) THEN "done" ELSE "run"

\* Line 520: where run_bear_from_section goes with profile_bears_results
AfterSetup(rv) == IF Truthy(rv) THEN "normalize" ELSE "run"

FalseRetval == [kind |-> "False", items |-> <<>>]

SplitLog(r) ==
    [k \in DOMAIN r.errs |-> Msg("ERROR", r.errs[k], FALSE, FALSE)]

\* `x in profile_bears` for a list of tokens
HasToken(toks, x) == \E k \in DOMAIN toks : toks[k] = x

\* Line 466: str(profile_bears[0]).lower().strip()
StrProfileBears(toks) == Strip(LowerSeq(toks[1]), {" "})

\* setup_profiler, lines 448-475 (up to the call of self.run)
SetupProfiler ==
    /\ pc = "setup_profiler"
    /\ LET r == parenthesis_split(kwargs["profile_bears"], ",", "(", ")")
           popped == Pop(Pop(kwargs, "section_name"), "bear_name")
       IN  /\ log' = log \o SplitLog(r)
           /\ tokens' = r.tokens
           /\ IF r.isNone
              THEN /\ kwargs' = Pop(popped, "profile_bears")
                   /\ retval' = FalseRetval
                   /\ pc' = AfterSetup(FalseRetval)
                   /\ UNCHANGED <<profEnabled, profEnables, report>>
              ELSE IF HasToken(r.tokens, <<"dump">>)
                      /\ HasToken(r.tokens, <<"True">>)
              THEN /\ kwargs' = Pop(popped, "profile_bears")
                   /\ report' = Append(report,
                          [dest |-> "prof_file", opened |-> TRUE])
                   /\ pc' = "runctx"
                   /\ UNCHANGED <<retval, profEnabled, profEnables>>
              ELSE IF StrProfileBears(r.tokens) # <<"false">>
              THEN /\ IF ~inp.decorated
                      THEN /\ kwargs' = Pop(popped, "profile_bears")
                           /\ profEnabled' = TRUE
                           /\ profEnables' = profEnables + 1
                      ELSE /\ kwargs' = Put(popped, "profiler", <<"prof">>)
                           /\ UNCHANGED <<profEnabled, profEnables>>
                   /\ pc' = "profiled_run"
                   /\ UNCHANGED <<retval, report>>
              ELSE /\ kwargs' = Pop(popped, "profile_bears")
                   /\ retval' = FalseRetval
                   /\ pc' = AfterSetup(FalseRetval)
                   /\ UNCHANGED <<profEnabled, profEnables, report>>
    /\ UNCHANGED <<inp, calls, produced, raisedExc, result>>
    /\ UNCHANGED <<splitVars, pstatsVars, dbgVars, tblVars>>

\* The entry of the routine's body that a call self.run(*args, **kwargs)
\* leads to, with the profiler as it is then
Entry(c) == [kwargs |-> c.kwargs, prof |-> profEnabled \/ c.enables]

\* The value a call of the routine returns when it does not raise
Returned(routine) ==
    IF routine.ret = "list" THEN [kind |-> "list", items |-> routine.items]
    ELSE [kind |-> "gen", items |-> <<>>]

RaisesOnEntry(routine) == routine.ret = "list" /\ routine.raises

\* Lines 462-464: cProfile.runctx('self.run(*args, **kwargs)', ...) and the
\* return.  runctx profiles with a profiler of its own, which it disables in
\* every case, and it swallows a SystemExit of the statement.
RunCtx ==
    /\ pc = "runctx"
    /\ LET c == InvokeRun(kwargs, inp.decorated, inp.section, inp.aspects)
       IN  /\ calls' = Append(calls, Entry(c))
           /\ profEnabled' = (profEnabled \/ c.enables)
           /\ profEnables' = profEnables + (IF c.enables THEN 1 ELSE 0)
           /\ IF RaisesOnEntry(inp.routine) /\ inp.exc # "SystemExit"
              THEN /\ Except(inp.exc, log)
                   /\ UNCHANGED <<retval, report>>
              ELSE /\ retval' = FalseRetval
                   /\ report' = Append(report,
                          [dest |-> "prof_file", opened |-> FALSE])
                   /\ pc' = AfterSetup(FalseRetval)
                   /\ UNCHANGED <<log, raisedExc, result>>
    /\ UNCHANGED <<inp, kwargs, tokens, produced>>
    /\ UNCHANGED <<splitVars, pstatsVars, dbgVars, tblVars>>

\* Lines 476-478: retval = self.run(*args, **kwargs), and the tee of a
\* generator
ProfiledRun ==
    /\ pc = "profiled_run"
    /\ LET c == InvokeRun(kwargs, inp.decorated, inp.section, inp.aspects)
       IN  /\ calls' = Append(calls, Entry(c))
           /\ profEnabled' = (profEnabled \/ c.enables)
           /\ profEnables' = profEnables + (IF c.enables THEN 1 ELSE 0)
           /\ IF RaisesOnEntry(inp.routine)
              THEN /\ Except(inp.exc, log)
                   /\ UNCHANGED retval
              ELSE /\ retval' = IF inp.routine.ret = "gen"
                                THEN [kind |-> "tee", items |-> <<>>]
                                ELSE Returned(inp.routine)
                   /\ pc' = IF inp.routine.ret = "gen" THEN "tee_drain"
                            ELSE "disable"
                   /\ UNCHANGED <<log, raisedExc, result>>
    /\ UNCHANGED <<inp, kwargs, tokens, produced, report>>
    /\ UNCHANGED <<splitVars, pstatsVars, dbgVars, tblVars>>

\* One production of the routine's generator: its next item, with the state
\* of the profiler at that moment
Production(n) == [item |-> inp.routine.items[n], prof |-> profEnabled]

\* The mutant: the copy is not exhausted before prof.disable().
TeeDrainSkips ==
    /\ pc = "tee_drain"
    /\ pc' = "disable"
    /\ UNCHANGED <<inp, kwargs, tokens, retval, profEnabled, profEnables,
                   calls, produced, log, report, raisedExc, result>>
    /\ UNCHANGED <<splitVars, pstatsVars, dbgVars, tblVars>>

\* Lines 479-480: one round of `for i in retval_clone: pass`.  The items
\* drawn are kept by the tee for the copy that is returned.
TeeDrain ==
    /\ pc = "tee_drain"
    /\ IF Len(retval.items) < Len(inp.routine.items)
       THEN /\ retval' = [retval EXCEPT !.items =
                   Append(@, inp.routine.items[Len(retval.items) + 1])]
            /\ produced' = Append(produced, Production(Len(retval.items) + 1))
            /\ UNCHANGED <<pc, log, raisedExc, result>>
       ELSE IF inp.routine.raises
       THEN /\ Except(inp.exc, log)
            /\ UNCHANGED <<retval, produced>>
       ELSE /\ pc' = "disable"
            /\ UNCHANGED <<retval, produced, log, raisedExc, result>>
    /\ UNCHANGED <<inp, kwargs, tokens, profEnabled, profEnables, calls,
                   report>>
    /\ UNCHANGED <<splitVars, pstatsVars, dbgVars, tblVars>>

\* Line 481: prof.disable()
ProfDisable ==
    /\ pc = "disable"
    /\ profEnabled' = FALSE
    /\ pc' = "report"
    /\ UNCHANGED <<inp, kwargs, tokens, retval, profEnables, calls, produced,
                   log, report, raisedExc, result>>
    /\ UNCHANGED <<splitVars, pstatsVars, dbgVars, tblVars>>

PstatsLog(r) ==
    [k \in DOMAIN r.errs |-> Msg("ERROR", r.errs[k].kind, FALSE, FALSE)]

\* Lines 495-498: the message names str_profile_bears
DestinationMsg(dest) ==
    [level |-> "ERROR", msg |-> "No such file or directory", bear |-> FALSE,
     file |-> FALSE, arg |-> dest]

\* Lines 482-499: the report, to the console table or to the file named by
\* the first token, and the return of retval.  An exception of the report
\* other than the FileNotFoundError of open leaves setup_profiler.
ReportOutcome(dest, ps, t, check_trim) ==
    IF dest # <<"true">> /\ ~FileOpens(dest)
    THEN IF OpenError(dest) = "FileNotFoundError"
         THEN /\ log' = Append(log, DestinationMsg(dest))
              /\ pc' = AfterSetup(retval)
              /\ UNCHANGED <<report, raisedExc, result>>
         ELSE /\ Except(OpenError(dest), log)
              /\ UNCHANGED report
    ELSE IF t.raised # "none"
    THEN /\ Except(t.raised, log \o PstatsLog(t))
         /\ UNCHANGED report
    ELSE /\ log' = log \o PstatsLog(t)
         /\ report' = Append(report,
                [dest |-> t.dest, ps |-> ps, trim |-> ~check_trim])
         /\ pc' = AfterSetup(retval)
         /\ UNCHANGED <<raisedExc, result>>

\* Lines 482-499 of setup_profiler, with the table or the file of the report
Report ==
    /\ pc = "report"
    /\ ReportOutcome(StrProfileBears(tokens), pstats_config(tokens).ps,
                     IF StrProfileBears(tokens) = <<"true">>
                     THEN setup_profiler_table(tokens, inp.profile, FALSE,
                              HasToken(tokens, <<"no_trim">>))
                     ELSE ReportToFile(tokens, inp.profile,
                              HasToken(tokens, <<"no_trim">>)),
                     HasToken(tokens, <<"no_trim">>))
    /\ UNCHANGED <<inp, kwargs, tokens, retval, profEnabled, profEnables,
                   calls, produced>>
    /\ UNCHANGED <<splitVars, pstatsVars, dbgVars, tblVars>>

\* Line 520-521: `... else self.run(*args, **kwargs)`
Run ==
    /\ pc = "run"
    /\ LET c == InvokeRun(kwargs, inp.decorated, inp.section, inp.aspects)
       IN  /\ calls' = Append(calls, Entry(c))
           /\ profEnabled' = (profEnabled \/ c.enables)
           /\ profEnables' = profEnables + (IF c.enables THEN 1 ELSE 0)
           /\ IF RaisesOnEntry(inp.routine)
              THEN /\ Except(inp.exc, log)
                   /\ UNCHANGED retval
              ELSE /\ retval' = Returned(inp.routine)
                   /\ pc' = "normalize"
                   /\ UNCHANGED <<log, raisedExc, result>>
    /\ UNCHANGED <<inp, kwargs, tokens, produced, report>>
    /\ UNCHANGED <<splitVars, pstatsVars, dbgVars, tblVars>>

\* Line 539: list(result).  A list and the returned copy of a tee are
\* complete; a generator is drawn from, one item a step.
Normalize ==
    /\ pc = "normalize"
    /\ IF retval.kind \in {"list", "tee"}
       THEN /\ Return(retval.items)
            /\ UNCHANGED <<retval, produced, log, raisedExc>>
       ELSE IF Len(retval.items) < Len(inp.routine.items)
       THEN /\ retval' = [retval EXCEPT !.items =
                   Append(@, inp.routine.items[Len(retval.items) + 1])]
            /\ produced' = Append(produced, Production(Len(retval.items) + 1))
            /\ UNCHANGED <<pc, log, raisedExc, result>>
       ELSE IF inp.routine.raises
       THEN /\ Except(inp.exc, log)
            /\ UNCHANGED <<retval, produced>>
       ELSE /\ Return(retval.items)
            /\ UNCHANGED <<retval, produced, log, raisedExc>>
    /\ UNCHANGED <<inp, kwargs, tokens, profEnabled, profEnables, calls,
                   report>>
    /\ UNCHANGED <<splitVars, pstatsVars, dbgVars, tblVars>>

----------------------------------------------------------------------------
(* debug_run(func, dbg, *args, **kwargs) with a Debugger on injected       *)
(* streams, as tests/bears/DebugBearsTest.py drives it                     *)

\* The routines debugged: one that yields its items (func1), one that
\* returns them as a list (func2), one that returns the generator of another
\* routine (func3)
DebugRoutines ==
    [shape : {"yields", "returns_list", "returns_stream"},
     items : SeqUpTo({1, 2}, MaxItems)]

\* The commands on the debugger's stdin: "q" and "c" both resume
DebugCommands == SeqUpTo({"q", "c"}, MaxItems)

DebugStart(d, at) ==
    /\ dbgIn = d
    /\ dbgPc = at
    /\ dbgResults = <<>>
    /\ transcript = <<>>

DebugIdle ==
    DebugStart([func |-> [shape |-> "returns_list", items |-> <<>>],
                cmds |-> <<>>], "idle")

\* The mutant: an item is added to the results without being shown.
ObserveSilently(event, cmds) == [out |-> <<>>, cmds |-> cmds]

\* The session stops at an event of the routine, writes it on stdout, reads
\* the next command (if one is left) and resumes.
Observe(event, cmds) ==
    [out |-> <<event>>, cmds |-> IF cmds = <<>> THEN <<>> ELSE Tail(cmds)]

\* dbg.runcall(func, *args, **kwargs): a concrete sequence is returned as it
\* is, its return statement observed once; a lazy stream is stepped through.
DebugCall ==
    /\ dbgPc = "runcall"
    /\ LET f == dbgIn.func
           o == Observe([event |-> "return", value |-> f.items], dbgIn.cmds)
       IN  CASE f.shape = "returns_list" ->
                  /\ transcript' = transcript \o o.out
                  /\ dbgIn' = [dbgIn EXCEPT !.cmds = o.cmds]
                  /\ dbgResults' = f.items
                  /\ dbgPc' = "done"
             [] f.shape = "returns_stream" ->
                  /\ transcript' = transcript \o o.out
                  /\ dbgIn' = [dbgIn EXCEPT !.cmds = o.cmds]
                  /\ dbgResults' = <<>>
                  /\ dbgPc' = "next"
             [] OTHER ->
                  /\ dbgPc' = "next"
                  /\ UNCHANGED <<transcript, dbgIn, dbgResults>>
    /\ UNCHANGED <<splitVars, pstatsVars, pipeVars, tblVars>>

\* One production of the stream: the item is shown as a step of its own and
\* then appended to the results; the end of the stream ends the session.
DebugNext ==
    /\ dbgPc = "next"
    /\ LET n == Len(dbgResults) + 1
       IN  IF n <= Len(dbgIn.func.items)
           THEN LET o == Observe([event |-> "yield",
                                  value |-> <<dbgIn.func.items[n]>>],
                                 dbgIn.cmds)
                IN  /\ transcript' = transcript \o o.out
                    /\ dbgIn' = [dbgIn EXCEPT !.cmds = o.cmds]
                    /\ dbgResults' = Append(dbgResults, dbgIn.func.items[n])
                    /\ UNCHANGED dbgPc
           ELSE /\ dbgPc' = "done"
                /\ UNCHANGED <<transcript, dbgIn, dbgResults>>
    /\ UNCHANGED <<splitVars, pstatsVars, pipeVars, tblVars>>

----------------------------------------------------------------------------
(* The report of one profiled run: lines 482-498 of setup_profiler with    *)
(* setup_profiler_table, step by step                                      *)

\* The values of profile_bears a report is made for
T_NoTrimPadded ==
    <<"True", ",", " ", "no_trim", ",", " ", "reverse_order">>
T_Reverse     == <<"True", ",", "reverse_order">>
T_Sort        == <<"True", ",", "sort_stats", "(", "time", ")">>
T_AddMissing  == <<"True", ",", "add", "(", "missing.prof", ")">>
T_FileNoTrim  == <<"out.txt", ",", "no_trim">>
TableDirectives ==
    {D_True, D_NoTrim, T_NoTrimPadded, T_Reverse, T_Sort, T_AddMissing,
     D_File, T_FileNoTrim}

\* A profile of n functions, the w-th of them of the given kind
ProfileOf(n, w, kind) == [k \in 1..n |-> IF k = w THEN kind ELSE "plain"]
Profiles ==
    {ProfileOf(n, w, kind) :
        n \in 1..MaxFuncs, w \in 0..MaxFuncs, kind \in FuncKinds}

TableInputs ==
    [directive : TableDirectives, profile : Profiles, linter : BOOLEAN]

TableStart(i, at) ==
    /\ tblIn = i
    /\ tblPc = at
    /\ tmpFile = FALSE
    /\ tblOut = NoTable

TableIdle ==
    TableStart([directive |-> D_True, profile |-> <<"plain">>,
                linter |-> FALSE], "idle")

\* The local profile_bears of setup_profiler, line 449
TableTokens == parenthesis_split(tblIn.directive, ",", "(", ")").tokens

\* Line 482
CheckTrim == HasToken(TableTokens, <<"no_trim">>)

\* Lines 482-498 of setup_profiler: to the console table (up to mkstemp,
\* line 381, of setup_profiler_table) or to the file
ReportBranch ==
    /\ tblPc = "report"
    /\ IF StrProfileBears(TableTokens) = <<"true">>
       THEN /\ tmpFile' = TRUE
            /\ tblPc' = "table"
            /\ UNCHANGED tblOut
       ELSE /\ tblOut' = ReportToFile(TableTokens, tblIn.profile, CheckTrim)
            /\ tblPc' = "done"
            /\ UNCHANGED tmpFile
    /\ UNCHANGED <<tblIn, splitVars, pstatsVars, pipeVars, dbgVars>>

\* Lines 382-443 of setup_profiler_table
ProfilerTable ==
    /\ tblPc = "table"
    /\ tblOut' = setup_profiler_table(TableTokens, tblIn.profile,
                                      tblIn.linter, CheckTrim)
    /\ tblPc' = "finally"
    /\ UNCHANGED <<tblIn, tmpFile, splitVars, pstatsVars, pipeVars, dbgVars>>

\* The mutant: remove(path) is the last statement of the body, not a
\* finally clause.
RemoveTempAtEnd ==
    /\ tblPc = "finally"
    /\ tmpFile' = (tblOut.raised # "none")
    /\ tblPc' = "done"
    /\ UNCHANGED <<tblIn, tblOut, splitVars, pstatsVars, pipeVars, dbgVars>>

\* Lines 444-445: `finally: remove(path)`
RemoveTemp ==
    /\ tblPc = "finally"
    /\ tmpFile' = FALSE
    /\ tblPc' = "done"
    /\ UNCHANGED <<tblIn, tblOut, splitVars, pstatsVars, pipeVars, dbgVars>>

----------------------------------------------------------------------------
(* The specifications of pstats_config and parenthesis_split *)

PstatsNotCalled == [called |-> FALSE, ps |-> PsNew, errs |-> <<>>]

PstatsIdle ==
    /\ profile_bears = <<>>
    /\ pstatsRet = PstatsNotCalled

InitPstats ==
    /\ \E cmds \in SeqUpTo(CommandPool, MaxCmds) :
           profile_bears = << <<"True">> >> \o cmds
    /\ pstatsRet = PstatsNotCalled
    /\ SplitIdle
    /\ PipeIdle
    /\ DebugIdle
    /\ TableIdle

\* One call self.pstats_config(prof, stream, profile_bears)
PstatsConfig ==
    /\ ~pstatsRet.called
    /\ pstatsRet' = pstats_config(profile_bears)
    /\ UNCHANGED <<profile_bears, splitVars, pipeVars, dbgVars, tblVars>>

NextPstats == PstatsConfig

SpecPstats == InitPstats /\ [][NextPstats]_vars

\* The characters sentences are drawn from
SplitAlphabet == {"a", ",", "(", ")", " "}

\* "true, dump(a,b), reverse-order", character by character
ExampleSentence ==
    <<"t", "r", "u", "e", ",", " ", "d", "u", "m", "p", "(", "a", ",", "b",
      ")", ",", " ", "r", "e", "v", "e", "r", "s", "e", "-", "o", "r", "d",
      "e", "r">>

ExampleTokensClaimed ==
    << <<"t", "r", "u", "e">>,
       <<"d", "u", "m", "p", "(", "a", ",", "b", ")">>,
       <<"r", "e", "v", "e", "r", "s", "e", "-", "o", "r", "d", "e", "r">> >>

InitSplit ==
    /\ sentence \in SeqUpTo(SplitAlphabet, MaxLen) \cup {ExampleSentence}
    /\ splitRet = NotCalled
    /\ PstatsIdle
    /\ PipeIdle
    /\ DebugIdle
    /\ TableIdle

\* One call self.parenthesis_split(sentence) with the default separator and
\* parentheses.
ParenthesisSplit ==
    /\ ~splitRet.called
    /\ splitRet' = parenthesis_split(sentence, ",", "(", ")")
    /\ UNCHANGED <<sentence, pstatsVars, pipeVars, dbgVars, tblVars>>

NextSplit == ParenthesisSplit

SpecSplit == InitSplit /\ [][NextSplit]_vars

----------------------------------------------------------------------------
(* The specification of one call of execute *)

Init ==
    /\ \E i \in Inputs : PipeStart(i, "execute")
    /\ SplitIdle
    /\ PstatsIdle
    /\ DebugIdle
    /\ TableIdle

Next ==
    \/ ExecuteEnter
    \/ RunBearFromSection
    \/ SetupProfiler
    \/ RunCtx
    \/ ProfiledRun
    \/ TeeDrain
    \/ ProfDisable
    \/ Report
    \/ Run
    \/ Normalize

Spec == Init /\ [][Next]_vars

----------------------------------------------------------------------------
(* The specification of the report of one profiled run *)

InitTable ==
    /\ \E i \in TableInputs : TableStart(i, "report")
    /\ SplitIdle
    /\ PstatsIdle
    /\ PipeIdle
    /\ DebugIdle

NextTable == ReportBranch \/ ProfilerTable \/ RemoveTemp

SpecTable == InitTable /\ [][NextTable]_vars

----------------------------------------------------------------------------
(* The specification of debug_run *)

InitDebug ==
    /\ \E f \in DebugRoutines, c \in DebugCommands :
           DebugStart([func |-> f, cmds |-> c], "runcall")
    /\ SplitIdle
    /\ PstatsIdle
    /\ PipeIdle
    /\ TableIdle

NextDebug == DebugCall \/ DebugNext

SpecDebug == InitDebug /\ [][NextDebug]_vars

----------------------------------------------------------------------------
(* Properties of execute (checked under Spec) *)

Done == pc = "done"

\* The messages that are diagnostics for the user (warnings and errors)
Diagnostics == SelectSeq(log, LAMBDA m : m.level # "DEBUG")

\* The failure report of lines 548-555 was emitted
FailureReported ==
    \E k \in DOMAIN log :
        /\ log[k].level = "ERROR"
        /\ log[k].bear
        /\ log[k].msg \in {"failed to run", "failed to run on file"}

\* C1: after an invocation made through setup_profiler with profiling
\* enabled, the profiler is disabled when control is back at the caller,
\* also when the routine raised on entry or while its output was drained.
C1_ProfilerDisabledOnReturn ==
    (Done /\ profEnables > 0) => ~profEnabled

\* C2: when the routine raises a failure other than SystemExit and debug is
\* off, execute emits a diagnostic naming the routine and returns [].
C2_FailureReturnsEmptyList ==
    (Done /\ ~inp.debug /\ raisedExc \notin {"none", "SystemExit"}) =>
        /\ FailureReported
        /\ result.state = "returned"
        /\ result.value = "list"
        /\ result.items = <<>>

\* C3: with debug off execute never propagates an exception of the routine,
\* raised at invocation or while its lazy output is materialized; with debug
\* on an exception other than SystemExit is re-raised to the caller and not
\* converted to a result.
C3_PropagationOnlyInDebug ==
    (Done /\ raisedExc # "none") =>
        /\ ~inp.debug => (result.state = "returned" /\ FailureReported)
        /\ (inp.debug /\ raisedExc # "SystemExit") =>
               /\ result.state = "raised"
               /\ result.exc = raisedExc
               /\ ~FailureReported

\* C3 witness: with debug off a generator raised after producing an item
\* while list(result) drew from it, and execute returned.
C3_Witness ==
    /\ Done
    /\ ~inp.debug
    /\ raisedExc = "Exception"
    /\ inp.routine.ret = "gen"
    /\ produced # <<>>
    /\ retval.kind = "gen"
    /\ result.state = "returned"

\* C4 as claimed: a SystemExit raised inside the routine in debug mode
\* propagates to the caller and is not reported as a failure.
C4_SystemExitPropagates ==
    (Done /\ inp.debug /\ raisedExc = "SystemExit") =>
        /\ result.state = "raised"
        /\ ~FailureReported

\* C4 amended: a SystemExit raised inside the routine in debug mode is not
\* propagated; execute catches it, emits the failure diagnostic naming the
\* routine and returns None.
C4_SystemExitCaught ==
    (Done /\ inp.debug /\ raisedExc = "SystemExit") =>
        /\ result.state = "returned"
        /\ result.value = "None"
        /\ FailureReported

\* C4 witness: execute has ended in debug mode after the routine raised
\* SystemExit.
C4_Witness ==
    /\ Done
    /\ inp.debug
    /\ inp.routine.raises
    /\ raisedExc = "SystemExit"

\* C5: a parameter listed in aspectable_setting that is explicitly present
\* in the section reaches the routine with its explicit value, whatever
\* aspects are active.
C5_ExplicitSettingWins ==
    \A k \in DOMAIN calls :
        \A arg \in DOMAIN aspectable_setting :
            arg \in inp.section =>
                /\ arg \in DOMAIN calls[k].kwargs
                /\ calls[k].kwargs[arg] = "explicit"

\* C5 witness: a decorated routine was entered with both aspects active and
\* with f and t set explicitly in the section.
C5_Witness ==
    /\ calls # <<>>
    /\ inp.decorated
    /\ inp.aspects = AspectNames
    /\ {"f", "t"} \subseteq inp.section
    /\ calls[1].kwargs["f"] = "explicit"
    /\ calls[1].kwargs["t"] = "explicit"

\* C6: when a non-optional parameter has no default, no explicit setting
\* and no active aspect, execute returns [] and emits exactly one
\* diagnostic, which names the routine; the routine is never invoked and no
\* profiler is enabled.
C6_ConfigurationFailure ==
    (Done /\ \E q \in NonOptionalParams :
                 /\ q \notin inp.section
                 /\ aspectable_setting[q].aspect \notin inp.aspects) =>
        /\ result.state = "returned"
        /\ result.value = "list"
        /\ result.items = <<>>
        /\ Len(Diagnostics) = 1
        /\ Diagnostics[1].bear
        /\ Diagnostics[1].msg = "cannot be executed"
        /\ calls = <<>>
        /\ profEnables = 0
        /\ ~profEnabled

\* C6 witness: execute has ended for a section without x and without
\* aspects, called with profiling requested.
C6_Witness ==
    /\ Done
    /\ "x" \notin inp.section
    /\ inp.aspects = {}
    /\ inp.directive = D_True
    /\ result.value = "list"

----------------------------------------------------------------------------
(* Properties of debug_run (checked under SpecDebug) *)

\* The values shown as yield steps, in the order of the transcript
RECURSIVE YieldsShown(_)
YieldsShown(t) ==
    IF t = <<>> THEN <<>>
    ELSE (IF Head(t).event = "yield" THEN Head(t).value ELSE <<>>)
         \o YieldsShown(Tail(t))

\* C7: under debug instrumentation the result is a concrete list equal, in
\* order and length, to the items the routine produces when drained
\* directly, for a routine that yields, one that returns another routine's
\* stream and one that returns a sequence; every lazily produced item is a
\* step of its own in the transcript, in production order.
C7_DebugResultIsDrainedList ==
    /\ dbgPc = "done" =>
           /\ dbgResults = dbgIn.func.items
           /\ dbgIn.func.shape # "returns_list" =>
                  YieldsShown(transcript) = dbgIn.func.items
    /\ dbgIn.func.shape # "returns_list" =>
           YieldsShown(transcript) = dbgResults

\* C7 witness: a stream of two different items returned by another routine
\* has been stepped through to its end.
C7_Witness ==
    /\ dbgPc = "done"
    /\ dbgIn.func.shape = "returns_stream"
    /\ dbgIn.func.items = <<2, 1>>
    /\ Len(transcript) = 3

----------------------------------------------------------------------------
(* Properties of parenthesis_split (checked under SpecSplit) *)

\* Number of positions of s[1..n] that hold c
CountUpTo(s, n, c) == Cardinality({k \in 1..n : s[k] = c})

\* A closing parenthesis with no open one before it, or an opening one that
\* is never closed
Unbalanced(s) ==
    \/ \E n \in 1..Len(s) : CountUpTo(s, n, ")") > CountUpTo(s, n, "(")
    \/ CountUpTo(s, Len(s), "(") > CountUpTo(s, Len(s), ")")

\* C8: splitting "true, dump(a,b), reverse-order" yields exactly the tokens
\* "true", "dump(a,b)", "reverse-order", without separators or padding.
C8_ExampleSplit ==
    (splitRet.called /\ sentence = ExampleSentence) =>
        /\ ~splitRet.isNone
        /\ splitRet.tokens = ExampleTokensClaimed

\* C9: for every sentence with unbalanced parentheses parenthesis_split
\* reports an error and returns no tokens.
C9_UnbalancedRejected ==
    (splitRet.called /\ Unbalanced(sentence)) =>
        /\ splitRet.isNone
        /\ splitRet.tokens = <<>>
        /\ splitRet.errs = <<InvalidArgsMsg>>

\* C9 witness: a sentence whose opening parenthesis is never closed, and one
\* whose every prefix is fine, has been split.
C9_Witness ==
    /\ splitRet.called
    /\ Unbalanced(sentence)
    /\ \A n \in 1..Len(sentence) :
           CountUpTo(sentence, n, ")") <= CountUpTo(sentence, n, "(")
    /\ splitRet.isNone

----------------------------------------------------------------------------
(* Properties of pstats_config (checked under SpecPstats) *)

\* A setting whose method name pstats_config does not know
Unrecognized(setting) ==
    StrSetting(setting) # <<>> /\ MethodName(setting) \notin KnownMethods

\* The default report: strip_dirs, then sort by cumulative time, of the
\* profile as it was collected
DefaultReport == PsSortStats(PsStripDirs(PsNew), << <<"cumtime">> >>)

\* C10: when the command list holds an unrecognized command and
\* pstats_config stops at it (exactly one warning, naming that command), the
\* report returned is the default one: strip_dirs then sort by cumulative
\* time, with no effect of the commands that preceded it.
C10_UnrecognizedAbortsAll ==
    (pstatsRet.called
        /\ \E k \in 2..Len(profile_bears) : Unrecognized(profile_bears[k])
        /\ Len(pstatsRet.errs) = 1
        /\ pstatsRet.errs[1].kind = "unrecognized"
        /\ Unrecognized(pstatsRet.errs[1].name)) =>
        pstatsRet.ps = DefaultReport

----------------------------------------------------------------------------
(* Properties of the report (checked under SpecTable) *)

\* The console table has been handed to AsciiTable
TableRendered ==
    /\ tblPc \in {"finally", "done"}
    /\ tblOut.dest = "console"
    /\ tblOut.raised = "none"

\* The request holds the command no_trim, as pstats_config reads a command
\* (lower case, surrounding blanks dropped)
RequestsNoTrim ==
    \E k \in 2..Len(TableTokens) : MethodName(TableTokens[k]) = <<"no_trim">>

\* The lines of the file report that list a function
FunctionLines(lines) ==
    SelectSeq(lines, LAMBDA l : l.kind = "text" /\ l.words[2] = "")

\* C11: for a bear that is not row-filtered by name, a report request that
\* includes no_trim is rendered with as many rows as the full report has
\* (the title row and one row a function); without no_trim only the first
\* 15 rows are kept, in the table and in the file.
C11_NoTrimKeepsAllRows ==
    /\ (TableRendered /\ ~tblIn.linter) =>
           Len(tblOut.table) =
               IF RequestsNoTrim THEN Len(tblIn.profile) + 1
               ELSE Min(TrimRows, Len(tblIn.profile) + 1)
    /\ (tblPc = "done" /\ tblOut.dest = "file" /\ tblOut.raised = "none") =>
           Len(FunctionLines(tblOut.lines)) =
               IF RequestsNoTrim THEN Len(tblIn.profile)
               ELSE Min(TrimRows, Len(tblIn.profile))

\* C17: the temporary file of setup_profiler_table exists only while the
\* call is under way: it is removed when the call has returned and when the
\* configuration or the rendering of the report has raised.
C17_TempFileRemoved ==
    tblPc \in {"report", "done", "idle"} => ~tmpFile

\* C17 witness: a console report whose rendering raised has left
\* setup_profiler_table, and the temporary file is gone.
C17_Witness ==
    /\ tblPc = "done"
    /\ tblOut.dest = "console"
    /\ tblOut.raised = "IndexError"
    /\ ~tmpFile

\* C20: a row with any number of columns is rendered without failing, its
\* k-th column (from 0) in the colour k modulo 6 of the cycle.
C20_ColorCycleRepeats ==
    (tblPc \in {"finally", "done"} /\ tblOut.dest = "console"
        /\ tblOut.raised # "FileNotFoundError") =>
        /\ tblOut.raised = "none"
        /\ \A r \in DOMAIN tblOut.table :
               \A k \in DOMAIN tblOut.table[r] :
                   tblOut.table[r][k].color =
                       colors[((k - 1) % Len(colors)) + 1]

----------------------------------------------------------------------------
(* More properties of pstats_config (checked under SpecPstats) *)

\* The command's own text gives it at least one argument
GivenArguments(setting) ==
    FirstIndex(setting, "(") # 0 /\ ParseArgs(setting) # << <<>> >>

ZeroArgCommands == {<<"reverse_order">>, <<"strip_dirs">>, <<"no_trim">>}

\* What its own text says about a command: a zero-argument command with
\* arguments, or an argument-taking command without
OwnTextRejects(setting) ==
    IF MethodName(setting) \in ZeroArgCommands THEN GivenArguments(setting)
    ELSE ~GivenArguments(setting)

\* A recognized command whose arguments, if it sorts, are keys of sort_stats
WellFormed(setting) ==
    /\ StrSetting(setting) # <<>>
    /\ MethodName(setting) \in KnownMethods
    /\ (MethodName(setting) = <<"sort_stats">> /\ GivenArguments(setting)) =>
           \A k \in DOMAIN ParseArgs(setting) :
               ParseArgs(setting)[k] \in ValidSortKeys

\* C14: in a list of recognized commands pstats_config rejects a command
\* exactly when that command's own text is at fault (a zero-argument command
\* given arguments, an argument-taking command given none), whatever
\* commands came before it: the list is rejected if and only if one of its
\* commands is.
C14_ValidationPerCommand ==
    (pstatsRet.called
        /\ \A k \in 2..Len(profile_bears) : WellFormed(profile_bears[k])) =>
        (pstatsRet.errs # <<>>
            <=> \E k \in 2..Len(profile_bears) :
                    OwnTextRejects(profile_bears[k]))

----------------------------------------------------------------------------
(* More properties of execute (checked under Spec) *)

\* setup_profiler took the branch of lines 470-499: the directive was split,
\* is not a dump and its first token is not false
ProfilingEnabled ==
    LET r == parenthesis_split(inp.directive, ",", "(", ")")
    IN  /\ ~r.isNone
        /\ ~(HasToken(r.tokens, <<"dump">>) /\ HasToken(r.tokens, <<"True">>))
        /\ StrProfileBears(r.tokens) # <<"false">>

\* What execute gives for the same bear, section and arguments with
\* profile_bears False (lines 501-502, 520-521, 539-562)
PlainResult ==
    IF CreateParamsRaises(inp.section)
    THEN [state |-> "returned", value |-> "list", items |-> <<>>,
          exc |-> "none"]
    ELSE IF ~inp.routine.raises
    THEN [state |-> "returned", value |-> "list",
          items |-> inp.routine.items, exc |-> "none"]
    ELSE IF ExceptReraises(inp.debug, inp.exc)
    THEN [state |-> "raised", value |-> "None", items |-> <<>>,
          exc |-> inp.exc]
    ELSE [state |-> "returned", value |-> "None", items |-> <<>>,
          exc |-> "none"]

\* C12: execute with profiling enabled, to the console or to a file, ends as
\* execute with profiling disabled does for the same routine and arguments:
\* the same list in the same order, for a list and for a lazy output, an
\* empty one included.
C12_ProfilingTransparent ==
    Done => /\ inp.directive = D_False => result = PlainResult
            /\ ProfilingEnabled => result = PlainResult

\* C13: when the file the report is to go to cannot be opened,
\* setup_profiler reports an error naming the argument, writes no report,
\* does not raise and returns the routine's result.
C13_UnopenableDestination ==
    [][(pc = "report" /\ StrProfileBears(tokens) # <<"true">>
            /\ ~FileOpens(StrProfileBears(tokens))) =>
           /\ log' = Append(log, DestinationMsg(StrProfileBears(tokens)))
           /\ report' = report
           /\ raisedExc' = "none"
           /\ retval' = retval
           /\ pc' = AfterSetup(retval)]_vars

\* The items produced so far, in order
Drained == [k \in DOMAIN produced |-> produced[k].item]

ConfigurationFailed ==
    \E k \in DOMAIN log : log[k].msg = "cannot be executed"

\* The state of the machine of one execution
Phase ==
    CASE pc \in {"execute", "run_bear_from_section"} -> "CONFIGURING"
      [] pc \in {"setup_profiler", "runctx", "profiled_run", "tee_drain",
                 "disable", "report", "run"} -> "INVOKING"
      [] pc = "normalize" -> "NORMALIZING"
      [] pc = "done" ->
             IF raisedExc # "none" \/ ConfigurationFailed THEN "ABORTED"
             ELSE "DONE"
      [] OTHER -> "IDLE"

\* C16 as claimed: CONFIGURING, INVOKING, NORMALIZING, DONE in that order,
\* and ABORTED entered from CONFIGURING or INVOKING only.
C16_AbortOnlyBeforeNormalizing ==
    [][(LET step == <<Phase, Phase'>> IN step \in
           {<<"CONFIGURING", "CONFIGURING">>, <<"CONFIGURING", "INVOKING">>,
            <<"CONFIGURING", "ABORTED">>, <<"INVOKING", "INVOKING">>,
            <<"INVOKING", "NORMALIZING">>, <<"INVOKING", "ABORTED">>,
            <<"NORMALIZING", "NORMALIZING">>, <<"NORMALIZING", "DONE">>})
      ]_vars

\* C16 amended: the phases follow in the order CONFIGURING, INVOKING,
\* NORMALIZING, DONE; ABORTED is entered from CONFIGURING exactly on a
\* resolution failure, from INVOKING when the routine or the report raised,
\* and also from NORMALIZING, when a lazy output that was not drained under
\* the profiler raises while list(result) draws from it.
C16_PhaseOrder ==
    [][/\ LET step == <<Phase, Phase'>> IN step \in
           {<<"CONFIGURING", "CONFIGURING">>, <<"CONFIGURING", "INVOKING">>,
            <<"CONFIGURING", "ABORTED">>, <<"INVOKING", "INVOKING">>,
            <<"INVOKING", "NORMALIZING">>, <<"INVOKING", "ABORTED">>,
            <<"NORMALIZING", "NORMALIZING">>, <<"NORMALIZING", "DONE">>,
            <<"NORMALIZING", "ABORTED">>}
       /\ (Phase = "CONFIGURING" /\ Phase' = "ABORTED") =>
              (CreateParamsRaises(inp.section) /\ calls' = <<>>)
       /\ (pc = "run_bear_from_section" /\ CreateParamsRaises(inp.section))
              => Phase' = "ABORTED"
       /\ (Phase = "INVOKING" /\ Phase' = "ABORTED") => raisedExc' # "none"
       /\ (Phase = "NORMALIZING" /\ Phase' = "ABORTED") =>
              /\ retval.kind = "gen"
              /\ inp.routine.raises
              /\ retval.items = inp.routine.items
              /\ raisedExc' = inp.exc]_vars

\* C16 witness: in debug mode a generator that was not profiled raised
\* after its last item while list(result) drew from it.
C16_Witness ==
    /\ Done
    /\ inp.debug
    /\ inp.directive = D_False
    /\ retval.kind = "gen"
    /\ Len(produced) = MaxItems
    /\ raisedExc = "ZeroOffsetError"
    /\ result.state = "raised"

\* The parameters mapped to a capability flag
FlagParams ==
    {arg \in DOMAIN aspectable_setting : aspectable_setting[arg].tag = "Flag"}

\* C18: for a parameter mapped to a capability flag and not explicitly in
\* the section, the resolver passes true to the routine if and only if the
\* capability is active; when some aspect is active and the capability is
\* not, it passes false, and when no aspect is active it passes nothing.
C18_FlagFollowsCapability ==
    inp.decorated =>
        \A k \in DOMAIN calls : \A arg \in FlagParams \ inp.section :
            LET kw == calls[k].kwargs
                active == aspectable_setting[arg].aspect \in inp.aspects
            IN  /\ (arg \in DOMAIN kw /\ kw[arg] = "True") <=> active
                /\ (inp.aspects # {} /\ ~active) =>
                       (arg \in DOMAIN kw /\ kw[arg] = "False")
                /\ inp.aspects = {} => arg \notin DOMAIN kw

\* C18 witness: a decorated routine was entered with aspect A1 active and
\* A2 not, f not in the section, and received f = False.
C18_Witness ==
    /\ calls # <<>>
    /\ inp.decorated
    /\ inp.aspects = {"A1"}
    /\ "f" \notin inp.section
    /\ "f" \in DOMAIN calls[1].kwargs
    /\ calls[1].kwargs["f"] = "False"

\* C19: in one call of execute whose parameter resolution succeeds the
\* routine is invoked exactly once, whatever the profile directive and the
\* routine's output.
C19_InvokedOnce ==
    (Done /\ ~CreateParamsRaises(inp.section)) => Len(calls) = 1

====
